---- MODULE Spec2Model ----
(***************************************************************************)
(* Model of the local RAG demo: the indexing script                        *)
(* (make_chroma_vectorstore.py) and the chat script (chat_with_docs.py),   *)
(* two programs that share one persistent ChromaDB collection.             *)
(*                                                                         *)
(* Text is a sequence of one-character strings.  The embedding provider,   *)
(* the vector index and the language model are external collaborators:     *)
(* where their answer is not determined by this repository the model       *)
(* chooses it nondeterministically from a small set.                       *)
(***************************************************************************)
EXTENDS Integers, Sequences, FiniteSets, TLC

VARIABLES
    collExists,   \* the collection "document_embeddings" exists in ./chromadb
    coll,         \* its records, in insertion order
    ipc,          \* position of the indexing script
    runs,         \* indexing runs started so far
    coll0,        \* the collection's records when the current run started
    texts,        \* process_documents: the chunks to embed
    i,            \* process_documents: the loop counter of enumerate(texts)
    embeddings,   \* process_documents: local list
    metadatas,    \* process_documents: local list
    ids,          \* process_documents: local list
    embedLog,     \* the embedding provider's calls in this run: <<text, vector>>
    addLog,       \* the arguments of every collection.add of this run
    dir,          \* the documents directory as this run found it
    cpc,          \* position of the chat script
    reads,        \* inputs read so far by the chat loop
    raw,          \* the line returned by input()
    query,        \* chat main: query
    results,      \* get_relevant_context: results['documents'][0]
    context,      \* chat main: context
    messages,     \* the message lists handed to llm.invoke for this input
    calls,        \* provider calls made for this input
    printed,      \* what the loop printed for this input
    failures,     \* per-query errors the except clause has reported so far
    kpc,          \* position of a call of chunk_text
    text,         \* chunk_text: text
    method,       \* chunk_text: method
    chunk_size,   \* chunk_text: chunk_size
    chunk_overlap,\* chunk_text: chunk_overlap
    chunks        \* the list chunk_text returned

vars == <<collExists, coll, ipc, runs, coll0, texts, i, embeddings, metadatas,
          ids, embedLog, addLog, dir, cpc, reads, raw, query, results, context,
          messages, calls, printed, failures, kpc, text, method, chunk_size,
          chunk_overlap, chunks>>

ivars == <<ipc, runs, coll0, texts, i, embeddings, metadatas, ids, embedLog, addLog,
           dir>>
cvars == <<cpc, reads, raw, query, results, context, messages, calls, printed, failures>>
kvars == <<kpc, text, method, chunk_size, chunk_overlap, chunks>>

----------------------------------------------------------------------------
(* Bounds *)

MaxRuns == 2       \* indexing runs per behaviour
MaxReads == 2      \* inputs read per chat session

----------------------------------------------------------------------------
(* Text helpers *)

Min(a, b) == IF a <= b THEN a ELSE b

Range(s) == {s[j] : j \in 1..Len(s)}

\* sep.join(parts)
RECURSIVE Join(_, _)
Join(sep, parts) ==
    IF parts = <<>> THEN <<>>
    ELSE IF Len(parts) = 1 THEN parts[1]
    ELSE parts[1] \o sep \o Join(sep, Tail(parts))

Whitespace == {" ", "\t", "\n"}

RECURSIVE LStrip(_)
LStrip(s) == IF s # <<>> /\ Head(s) \in Whitespace THEN LStrip(Tail(s)) ELSE s

RECURSIVE RStrip(_)
RStrip(s) ==
    IF s # <<>> /\ s[Len(s)] \in Whitespace THEN RStrip(SubSeq(s, 1, Len(s) - 1)) ELSE s

\* str.strip()
Strip(s) == RStrip(LStrip(s))

LowerChar(c) ==
    CASE c = "Q" -> "q" [] c = "U" -> "u" [] c = "I" -> "i" [] c = "T" -> "t"
      [] c = "E" -> "e" [] c = "X" -> "x" [] c = "H" -> "h"
      [] OTHER -> c

\* str.lower()
Lower(s) == [j \in 1..Len(s) |-> LowerChar(s[j])]

DigitChar(d) ==
    CASE d = 0 -> "0" [] d = 1 -> "1" [] d = 2 -> "2" [] d = 3 -> "3" [] d = 4 -> "4"
      [] d = 5 -> "5" [] d = 6 -> "6" [] d = 7 -> "7" [] d = 8 -> "8" [] d = 9 -> "9"

\* str(n) for n >= 0
RECURSIVE NatStr(_)
NatStr(n) == IF n < 10 THEN <<DigitChar(n)>> ELSE NatStr(n \div 10) \o <<DigitChar(n % 10)>>

----------------------------------------------------------------------------
(* The documents directory *)

\* The files that may lie under the directory.  Each has the chunks that
\* RecursiveCharacterTextSplitter(1000, 200) cuts its text into; neighbouring
\* chunks of one file share their overlap.
FileA == <<"d", "/", "a", ".", "t", "x", "t">>
FileB == <<"d", "/", "b", ".", "m", "d">>
FileC == <<"d", "/", "c", ".", "t", "x", "t">>
FileN == <<"d", "/", "n", ".", "c", "s", "v">>

Files == {FileA, FileB, FileC, FileN}

FileChunks(path) ==
    CASE path = FileA -> << <<"a", "b">>, <<"b", "c">>, <<"c", "d">> >>
      [] path = FileB -> << <<"x", "y">>, <<"y", "z">> >>
      [] path = FileC -> << <<"e">> >>
      [] OTHER -> << <<"n">> >>

supported_extensions ==
    << <<".", "t", "x", "t">>, <<".", "p", "d", "f">>, <<".", "m", "d">>,
       <<".", "r", "s", "t">>, <<".", "p", "p", "t">>, <<".", "p", "p", "t", "x">> >>

EndsWith(s, suffix) ==
    /\ Len(suffix) <= Len(s)
    /\ SubSeq(s, Len(s) - Len(suffix) + 1, Len(s)) = suffix

\* A total order on the files, standing for the order glob.glob lists them in.
FileRank(path) ==
    CASE path = FileA -> 1 [] path = FileB -> 2 [] path = FileC -> 3 [] OTHER -> 4

RECURSIVE SortFiles(_)
SortFiles(S) ==
    IF S = {} THEN <<>>
    ELSE LET f == CHOOSE x \in S : \A y \in S : FileRank(x) <= FileRank(y)
         IN  <<f>> \o SortFiles(S \ {f})

\* glob.glob(os.path.join(directory_path, f"**/*{ext}"), recursive=True)
Glob(present, ext) ==
    SortFiles({f \in present : EndsWith(f, ext)})

\* loader.load(): one Document per file, its metadata naming the source.  The
\* file's text is stood for by its path (FileChunks gives its chunks).
Load(path) == [text |-> path, metadata |-> [source |-> path]]

\* LoadFiles with the first loader error ending the loop over the files
RECURSIVE LoadFilesUntilError(_, _)
LoadFilesUntilError(matching, failing) ==
    IF matching = <<>> THEN <<>>
    ELSE IF Head(matching) \in failing THEN <<>>
    ELSE <<Load(Head(matching))>> \o LoadFilesUntilError(Tail(matching), failing)

\* The inner loop of process_documents over one extension's files: a file whose
\* loader raises is reported and contributes nothing.
RECURSIVE LoadFiles(_, _)
LoadFiles(matching, failing) ==
    IF matching = <<>> THEN <<>>
    ELSE (IF Head(matching) \in failing THEN <<>> ELSE <<Load(Head(matching))>>)
         \o LoadFiles(Tail(matching), failing)

\* The outer loop of process_documents over supported_extensions
RECURSIVE LoadAll(_, _, _)
LoadAll(exts, present, failing) ==
    IF exts = <<>> THEN <<>>
    ELSE LoadFiles(Glob(present, Head(exts)), failing)
         \o LoadAll(Tail(exts), present, failing)

\* text_splitter.split_documents(documents): every chunk keeps its document's
\* metadata
RECURSIVE SplitDocuments(_)
SplitDocuments(documents) ==
    IF documents = <<>> THEN <<>>
    ELSE LET d  == Head(documents)
             cs == FileChunks(d.text)
         IN  [j \in 1..Len(cs) |-> [page_content |-> cs[j], metadata |-> d.metadata]]
             \o SplitDocuments(Tail(documents))

\* dict.get(key, default)
Get(d, key, default) == IF key \in DOMAIN d THEN d[key] ELSE default

LastIndexOf(s, c) ==
    LET S == {j \in 1..Len(s) : s[j] = c}
    IN  IF S = {} THEN 0 ELSE CHOOSE j \in S : \A k \in S : k <= j

\* os.path.splitext(p)[1]
SplitExt(p) ==
    LET sep == LastIndexOf(p, "/")
        dot == LastIndexOf(p, ".")
    IN  IF dot > sep /\ \E j \in (sep + 1)..(dot - 1) : p[j] # "."
        THEN SubSeq(p, dot, Len(p))
        ELSE <<>>

unknown == <<"u", "n", "k", "n", "o", "w", "n">>

\* x or "unknown"
OrUnknown(x) == IF x = <<>> THEN unknown ELSE x

\* The metadata dict built for one chunk
Metadata(doc) ==
    [source    |-> Get(doc.metadata, "source", unknown),
     file_type |-> OrUnknown(Tail(SplitExt(Get(doc.metadata, "source", <<".">>))))]

\* f"doc_{n}"
DocId(n) == <<"d", "o", "c", "_">> \o NatStr(n)

----------------------------------------------------------------------------
(* The embedding provider and the vector index *)

\* The vectors the embedding provider may answer with
Vectors == {<<1, 0>>, <<0, 1>>}

IdsOf(c) == {c[j].id : j \in 1..Len(c)}

\* The positions of a bulk add that the index stores: those whose id it does
\* not hold yet.
RECURSIVE FreshRecords(_, _)
FreshRecords(c, recs) ==
    IF recs = <<>> THEN <<>>
    ELSE IF Head(recs).id \in IdsOf(c) THEN FreshRecords(c, Tail(recs))
    ELSE <<Head(recs)>> \o FreshRecords(c, Tail(recs))

WellFormed(args) ==
    /\ Len(args.embeddings) = Len(args.ids)
    /\ Len(args.documents) = Len(args.ids)
    /\ Len(args.metadatas) = Len(args.ids)
    /\ \A j, k \in 1..Len(args.ids) : args.ids[j] = args.ids[k] => j = k

\* CollectionAdd as an upsert: a record whose id the collection holds is
\* replaced by the new one
CollectionUpsert(c, args) ==
    LET recs == [j \in 1..Len(args.ids) |->
                   [id        |-> args.ids[j],
                    embedding |-> args.embeddings[j],
                    document  |-> args.documents[j],
                    metadata  |-> args.metadatas[j]]]
    IN  [j \in 1..Len(c) |->
            IF c[j].id \in Range(args.ids)
            THEN recs[CHOOSE k \in 1..Len(recs) : recs[k].id = c[j].id]
            ELSE c[j]]
        \o FreshRecords(c, recs)

\* collection.add(embeddings, documents, metadatas, ids), when it succeeds
CollectionAdd(c, args) ==
    c \o FreshRecords(c, [j \in 1..Len(args.ids) |->
                            [id        |-> args.ids[j],
                             embedding |-> args.embeddings[j],
                             document  |-> args.documents[j],
                             metadata  |-> args.metadatas[j]]])

----------------------------------------------------------------------------
(* make_chroma_vectorstore.py *)

Ended == {"idle", "returned", "failed", "done"}

NoDirectory == [exists |-> FALSE, present |-> {}, failing |-> {}]

\* __main__: collection = init_embeddings()
InitEmbeddings ==
    /\ ipc \in Ended
    /\ runs < MaxRuns
    /\ runs' = runs + 1
    /\ collExists' = TRUE
    /\ coll' = coll
    /\ coll0' = coll
    /\ texts' = <<>>
    /\ i' = 0
    /\ embeddings' = <<>>
    /\ metadatas' = <<>>
    /\ ids' = <<>>
    /\ embedLog' = <<>>
    /\ addLog' = <<>>
    /\ dir' = NoDirectory
    /\ ipc' = "process"
    /\ UNCHANGED <<cvars, kvars>>

\* LoadDocuments without the test `if not documents`
LoadDocumentsNoEmptyTest(dirExists, present, failing) ==
    /\ ipc = "process"
    /\ dir' = [exists |-> dirExists, present |-> present, failing |-> failing]
    /\ IF ~dirExists
       THEN /\ ipc' = "returned"
            /\ texts' = texts
       ELSE /\ texts' = SplitDocuments(LoadAll(supported_extensions, present, failing))
            /\ ipc' = "embed"
    /\ UNCHANGED <<collExists, coll, runs, coll0, i, embeddings, metadatas, ids,
                   embedLog, addLog>>
    /\ UNCHANGED <<cvars, kvars>>

\* process_documents up to the embedding loop: the directory check, the
\* loading of every matching file and the split into chunks
LoadDocuments(dirExists, present, failing) ==
    /\ ipc = "process"
    /\ dir' = [exists |-> dirExists, present |-> present, failing |-> failing]
    /\ IF ~dirExists
       THEN /\ ipc' = "returned"
            /\ texts' = texts
       ELSE LET documents == LoadAll(supported_extensions, present, failing)
            IN  IF documents = <<>>
                THEN /\ ipc' = "returned"
                     /\ texts' = texts
                ELSE /\ texts' = SplitDocuments(documents)
                     /\ ipc' = "embed"
    /\ UNCHANGED <<collExists, coll, runs, coll0, i, embeddings, metadatas, ids,
                   embedLog, addLog>>
    /\ UNCHANGED <<cvars, kvars>>

\* Enumerate counting from one
EnumerateFromOne(n) == n + 1

\* The counter of enumerate(texts) for the chunk at 0-based position n
Enumerate(n) == n

\* One iteration of the embedding loop, the provider answering v
EmbedChunk(v) ==
    /\ ipc = "embed"
    /\ i < Len(texts)
    /\ LET doc == texts[i + 1]
       IN  /\ embedLog' = Append(embedLog, <<doc.page_content, v>>)
           /\ embeddings' = Append(embeddings, v)
           /\ metadatas' = Append(metadatas, Metadata(doc))
           /\ ids' = Append(ids, DocId(Enumerate(i)))
    /\ i' = i + 1
    /\ UNCHANGED <<collExists, coll, ipc, runs, coll0, texts, addLog, dir>>
    /\ UNCHANGED <<cvars, kvars>>

\* EmbedChunkFails with the failing chunk skipped and the loop going on
EmbedChunkSkips ==
    /\ ipc = "embed"
    /\ i < Len(texts)
    /\ embedLog' = Append(embedLog, <<texts[i + 1].page_content, <<>> >>)
    /\ i' = i + 1
    /\ UNCHANGED <<collExists, coll, ipc, runs, coll0, texts, embeddings, metadatas,
                   ids, addLog, dir>>
    /\ UNCHANGED <<cvars, kvars>>

\* One iteration of the embedding loop, the provider raising: the exception
\* leaves process_documents and ends the script
EmbedChunkFails ==
    /\ ipc = "embed"
    /\ i < Len(texts)
    /\ embedLog' = Append(embedLog, <<texts[i + 1].page_content, <<>> >>)
    /\ ipc' = "failed"
    /\ UNCHANGED <<collExists, coll, runs, coll0, texts, i, embeddings, metadatas,
                   ids, addLog, dir>>
    /\ UNCHANGED <<cvars, kvars>>

\* AddArgs with the documents taken in the opposite order
AddArgsReversed ==
    [embeddings |-> embeddings,
     documents  |-> [j \in 1..Len(texts) |-> texts[Len(texts) + 1 - j].page_content],
     metadatas  |-> metadatas,
     ids        |-> ids]

\* The arguments of the collection.add call
AddArgs ==
    [embeddings |-> embeddings,
     documents  |-> [j \in 1..Len(texts) |-> texts[j].page_content],
     metadatas  |-> metadatas,
     ids        |-> ids]

\* collection.add after the loop.  An id the collection already holds is
\* either skipped or rejected, by the version of the index; the call may also
\* fail to write.
AddToCollection(ok) ==
    /\ ipc = "embed"
    /\ i = Len(texts)
    /\ addLog' = Append(addLog, AddArgs)
    /\ IF ok /\ WellFormed(AddArgs)
       THEN /\ coll' = CollectionAdd(coll, AddArgs)
            /\ ipc' = "done"
       ELSE /\ coll' = coll
            /\ ipc' = "failed"
    /\ UNCHANGED <<collExists, runs, coll0, texts, i, embeddings, metadatas, ids,
                   embedLog, dir>>
    /\ UNCHANGED <<cvars, kvars>>

\* The files a loader is built for: those some supported extension matches
Matching(present) ==
    {f \in present : \E k \in 1..Len(supported_extensions) :
                        f \in Range(Glob(present, supported_extensions[k]))}

\* A run finds the directory missing, or finds some of the files in it; the
\* loaders of some of the matching files raise.
IndexerNext ==
    \/ InitEmbeddings
    \/ \E dirExists \in BOOLEAN :
          \E present \in (IF dirExists THEN SUBSET Files ELSE {{}}) :
             \E failing \in SUBSET Matching(present) :
                LoadDocuments(dirExists, present, failing)
    \/ \E v \in Vectors : EmbedChunk(v)
    \/ EmbedChunkFails
    \/ \E ok \in BOOLEAN : AddToCollection(ok)

----------------------------------------------------------------------------
(* chat_with_docs.py *)

\* The n_results argument of collection.query
n_results == 2

Dot(a, b) == a[1] * b[1] + a[2] * b[2]

\* Cosine similarity of q to a is greater than of q to b (vectors with
\* non-negative coordinates, not all zero)
MoreSimilar(q, a, b) ==
    Dot(q, a) * Dot(q, a) * Dot(b, b) > Dot(q, b) * Dot(q, b) * Dot(a, a)

\* Position j of c comes before position k in the answer to a query for q:
\* more similar first, insertion order among equals
Before(c, q, j, k) ==
    \/ MoreSimilar(q, c[j].embedding, c[k].embedding)
    \/ /\ ~MoreSimilar(q, c[k].embedding, c[j].embedding)
       /\ j < k

RankOf(c, q, j) == 1 + Cardinality({k \in 1..Len(c) : k # j /\ Before(c, q, k, j)})

\* QueryDocuments with the limit k ignored
QueryDocumentsUnlimited(c, q, k) ==
    [r \in 1..Len(c) |->
        c[CHOOSE j \in 1..Len(c) : RankOf(c, q, j) = r].document]

\* collection.query(query_embeddings=[q], n_results=k)['documents'][0], when
\* the query succeeds: the texts of the k most similar records, fewer when the
\* collection holds fewer
QueryDocuments(c, q, k) ==
    [r \in 1..Min(k, Len(c)) |->
        c[CHOOSE j \in 1..Len(c) : RankOf(c, q, j) = r].document]

\* The lines input() may return
Lines ==
    { <<"q", "u", "i", "t">>,
      <<" ", "Q", "u", "i", "T", "\n">>,
      <<"E", "X", "I", "T">>,
      <<>>,
      <<" ", "\t">>,
      <<" ", "h", "i">>,
      <<"q", "u", "i", "t", "s">> }

\* The texts the language model may answer with
Responses == { <<" ", "o", "k", "\n">>, <<"n", "o">> }

ExitWords == { <<"q", "u", "i", "t">>, <<"e", "x", "i", "t">> }

\* query.lower() in ['quit', 'exit']
IsExit(q) == Lower(q) \in ExitWords

\* The literals of generate_response, each kept whole as one element
system_message ==
    <<"You are a helpful assistant that only answers questions based on the provided context. \n    If you cannot find the answer in the context, say \"I cannot answer this question based on the available documents.\"\n    Do not make up or infer information that is not directly supported by the context.">>

ContextLabel == <<"Context: ">>
QuestionLabel == <<"\n\n    Question: ">>

\* The f-string of generate_response
HumanMessage(ctx, q) == ContextLabel \o ctx \o QuestionLabel \o q

\* Messages with the user turn put before the instruction
MessagesSwapped(ctx, q) ==
    << [role |-> "human",  content |-> HumanMessage(ctx, q)],
       [role |-> "system", content |-> system_message] >>

\* The messages list of generate_response
Messages(ctx, q) ==
    << [role |-> "system", content |-> system_message],
       [role |-> "human",  content |-> HumanMessage(ctx, q)] >>

NoCalls == [embed |-> 0, query |-> 0, llm |-> 0]

\* main up to the loop: get_collection raises when the collection is missing,
\* and nothing catches it
ChatStart ==
    /\ cpc = "start"
    /\ cpc' = IF collExists THEN "read" ELSE "crashed"
    /\ UNCHANGED <<reads, raw, query, results, context, messages, calls, printed, failures>>
    /\ UNCHANGED <<collExists, coll>>
    /\ UNCHANGED <<ivars, kvars>>

\* AfterInput with the exit test made on the query as typed, not lowered
AfterInputCaseSensitive(q) ==
    IF q \in ExitWords THEN "done"
    ELSE IF q = <<>> THEN "read"
    ELSE "retrieve"

\* AfterInput without the test for an empty query
AfterInputNoEmptyTest(q) ==
    IF IsExit(q) THEN "done"
    ELSE "retrieve"

\* Where the loop goes after `break`, after `continue` and for a question
AfterInput(q) ==
    IF IsExit(q) THEN "done"
    ELSE IF q = <<>> THEN "read"
    ELSE "retrieve"

\* The head of the loop: input().strip(), the exit test and the empty test
ReadInput(line) ==
    /\ cpc = "read"
    /\ reads < MaxReads
    /\ reads' = reads + 1
    /\ raw' = line
    /\ query' = Strip(line)
    /\ results' = <<>>
    /\ context' = <<>>
    /\ messages' = <<>>
    /\ calls' = NoCalls
    /\ printed' = <<>>
    /\ cpc' = AfterInput(Strip(line))
    /\ failures' = failures
    /\ UNCHANGED <<collExists, coll>>
    /\ UNCHANGED <<ivars, kvars>>

\* input() raises EOFError at the end of the terminal input: outside the try
ReadEOF ==
    /\ cpc = "read"
    /\ reads < MaxReads
    /\ reads' = reads + 1
    /\ cpc' = "crashed"
    /\ UNCHANGED <<raw, query, results, context, messages, calls, printed, failures>>
    /\ UNCHANGED <<collExists, coll>>
    /\ UNCHANGED <<ivars, kvars>>

\* AfterError with the exception left to end the script
AfterErrorRaises == "crashed"

\* Where the loop goes after the except clause has printed the error
AfterError == "read"

\* get_relevant_context, the embedding provider raising
RetrieveEmbedFails ==
    /\ cpc = "retrieve"
    /\ calls' = [calls EXCEPT !.embed = @ + 1]
    /\ printed' = Append(printed, [kind |-> "error", text |-> <<>>])
    /\ cpc' = AfterError
    /\ failures' = failures + 1
    /\ UNCHANGED <<reads, raw, query, results, context, messages>>
    /\ UNCHANGED <<collExists, coll>>
    /\ UNCHANGED <<ivars, kvars>>

\* get_relevant_context, collection.query raising
RetrieveQueryFails ==
    /\ cpc = "retrieve"
    /\ calls' = [calls EXCEPT !.embed = @ + 1, !.query = @ + 1]
    /\ printed' = Append(printed, [kind |-> "error", text |-> <<>>])
    /\ cpc' = AfterError
    /\ failures' = failures + 1
    /\ UNCHANGED <<reads, raw, query, results, context, messages>>
    /\ UNCHANGED <<collExists, coll>>
    /\ UNCHANGED <<ivars, kvars>>

\* Retrieve with the loop going back to input() before the generation step
RetrieveThenRead(v) ==
    /\ cpc = "retrieve"
    /\ calls' = [calls EXCEPT !.embed = @ + 1, !.query = @ + 1]
    /\ results' = QueryDocuments(coll, v, n_results)
    /\ context' = Join(<<"\n">>, results')
    /\ cpc' = "read"
    /\ UNCHANGED <<reads, raw, query, messages, printed, failures>>
    /\ UNCHANGED <<collExists, coll>>
    /\ UNCHANGED <<ivars, kvars>>

\* get_relevant_context returning, the provider embedding the query as v
Retrieve(v) ==
    /\ cpc = "retrieve"
    /\ calls' = [calls EXCEPT !.embed = @ + 1, !.query = @ + 1]
    /\ results' = QueryDocuments(coll, v, n_results)
    /\ context' = Join(<<"\n">>, results')
    /\ cpc' = "generate"
    /\ UNCHANGED <<reads, raw, query, messages, printed, failures>>
    /\ UNCHANGED <<collExists, coll>>
    /\ UNCHANGED <<ivars, kvars>>

\* generate_response, llm.invoke raising
GenerateFails ==
    /\ cpc = "generate"
    /\ messages' = Append(messages, Messages(context, query))
    /\ calls' = [calls EXCEPT !.llm = @ + 1]
    /\ printed' = Append(printed, [kind |-> "error", text |-> <<>>])
    /\ cpc' = AfterError
    /\ failures' = failures + 1
    /\ UNCHANGED <<reads, raw, query, results, context>>
    /\ UNCHANGED <<collExists, coll>>
    /\ UNCHANGED <<ivars, kvars>>

\* generate_response returning r, and the print of the stripped response
Generate(r) ==
    /\ cpc = "generate"
    /\ messages' = Append(messages, Messages(context, query))
    /\ calls' = [calls EXCEPT !.llm = @ + 1]
    /\ printed' = Append(printed, [kind |-> "assistant", text |-> Strip(r)])
    /\ cpc' = "read"
    /\ UNCHANGED <<reads, raw, query, results, context, failures>>
    /\ UNCHANGED <<collExists, coll>>
    /\ UNCHANGED <<ivars, kvars>>

ChatNext ==
    \/ ChatStart
    \/ \E line \in Lines : ReadInput(line)
    \/ ReadEOF
    \/ RetrieveEmbedFails
    \/ RetrieveQueryFails
    \/ \E v \in Vectors : Retrieve(v)
    \/ GenerateFails
    \/ \E r \in Responses : Generate(r)

----------------------------------------------------------------------------
(* The two scripts over the one store *)

IndexerInit ==
    /\ ipc = "idle"
    /\ runs = 0
    /\ coll0 = <<>>
    /\ texts = <<>>
    /\ i = 0
    /\ embeddings = <<>>
    /\ metadatas = <<>>
    /\ ids = <<>>
    /\ embedLog = <<>>
    /\ addLog = <<>>
    /\ dir = NoDirectory

SessionInit ==
    /\ cpc = "start"
    /\ reads = 0
    /\ raw = <<>>
    /\ query = <<>>
    /\ results = <<>>
    /\ context = <<>>
    /\ messages = <<>>
    /\ calls = NoCalls
    /\ printed = <<>>
    /\ failures = 0

\* No call of chunk_text is under way
ChunkerIdle ==
    /\ kpc = "idle"
    /\ text = <<>>
    /\ method = "recursive"
    /\ chunk_size = 1000
    /\ chunk_overlap = 200
    /\ chunks = <<>>

\* Before either script has run there is no collection
Init ==
    /\ collExists = FALSE
    /\ coll = <<>>
    /\ IndexerInit
    /\ SessionInit
    /\ ChunkerIdle

Next == IndexerNext \/ ChatNext

\* Both scripts, interleaved in any way
Spec == Init /\ [][Next]_vars

\* The indexing script alone, run again and again over the one store
SpecIndexer == Init /\ [][IndexerNext]_vars

\* What one complete run of the indexing script over the files `present`
\* leaves in a fresh store, the provider answering vs[j] for chunk j
StoreAfterRun(present, vs) ==
    LET ts == SplitDocuments(LoadAll(supported_extensions, present, {}))
    IN  CollectionAdd(<<>>,
            [embeddings |-> vs,
             documents  |-> [j \in 1..Len(ts) |-> ts[j].page_content],
             metadatas  |-> [j \in 1..Len(ts) |-> Metadata(ts[j])],
             ids        |-> [j \in 1..Len(ts) |-> DocId(Enumerate(j - 1))]])

NumChunks(present) == Len(SplitDocuments(LoadAll(supported_extensions, present, {})))

\* The stores a chat session may be started on: no collection at all, or the
\* collection as one run of the indexing script leaves it (empty when the run
\* found no document)
Stores ==
    {[exists |-> FALSE, records |-> <<>>]}
    \cup {[exists |-> TRUE, records |-> StoreAfterRun(present, vs)] :
            <<present, vs>> \in UNION {{present} \X [1..NumChunks(present) -> Vectors] :
                                        present \in SUBSET Files}}

ChatInit ==
    /\ \E store \in Stores :
          /\ collExists = store.exists
          /\ coll = store.records
    /\ IndexerInit
    /\ SessionInit
    /\ ChunkerIdle

\* One chat session over a store that no indexing run changes meanwhile
SpecChat == ChatInit /\ [][ChatNext]_vars

----------------------------------------------------------------------------
(* Properties of the chat session *)

PerQueryFailure == RetrieveEmbedFails \/ RetrieveQueryFails \/ GenerateFails

LastPrinted == printed[Len(printed)]

\* C1: a step in which retrieval or generation fails for the current query
\* (the embedding provider, the index query or the language model raises)
\* reports the error and leaves the loop at its head, ready to read the next
\* input; it never ends the session.
C1_FailureKeepsSession ==
    [][PerQueryFailure =>
          /\ cpc' = "read"
          /\ Len(printed') = Len(printed) + 1
          /\ printed'[Len(printed')].kind = "error"
          /\ reads' = reads]_vars

\* C1 witness: after a query failed, a later query of the same session was
\* answered.
C1_Witness ==
    /\ failures >= 1
    /\ cpc = "read"
    /\ reads = 2
    /\ printed # <<>>
    /\ LastPrinted.kind = "assistant"

SameLetter(c, l) ==
    \/ c = l
    \/ <<c, l>> \in {<<"Q", "q">>, <<"U", "u">>, <<"I", "i">>, <<"T", "t">>,
                     <<"E", "e">>, <<"X", "x">>}

\* The line, without the whitespace around it, spells quit or exit in any case
IsExitLine(line) ==
    \E a, b \in 1..Len(line) :
        /\ a <= b
        /\ line[a] \notin Whitespace
        /\ line[b] \notin Whitespace
        /\ \A j \in 1..Len(line) : (j < a \/ j > b) => line[j] \in Whitespace
        /\ \E w \in ExitWords :
              /\ Len(w) = b - a + 1
              /\ \A j \in 1..Len(w) : SameLetter(line[a + j - 1], w[j])

\* C2: reading a line that is 'quit' or 'exit' once trimmed and compared
\* case-insensitively ends the loop in that very step, with no retrieval and no
\* generation for it; and once the loop has ended no further input is read.
C2_ExitEndsLoop ==
    [][/\ (\E line \in Lines : IsExitLine(line) /\ ReadInput(line)) =>
             /\ cpc' = "done"
             /\ calls' = NoCalls
             /\ messages' = <<>>
             /\ printed' = <<>>
       /\ cpc = "done" => (cpc' = "done" /\ reads' = reads /\ calls' = calls)]_vars

\* C2 witness: the loop has ended on an exit word typed in capitals with
\* whitespace around it.
C2_Witness ==
    /\ cpc = "done"
    /\ raw = <<" ", "Q", "u", "i", "T", "\n">>
    /\ query = <<"Q", "u", "i", "T">>
    /\ calls = NoCalls

\* C3 (as claimed): get_relevant_context never returns an empty context because
\* the collection is empty, and a missing collection is reported as a
\* per-query failure rather than ending the script.
C3_EmptyIndexIsAnError ==
    /\ ~(cpc = "generate" /\ coll = <<>> /\ context = <<>>)
    /\ ~(cpc = "crashed" /\ ~collExists)

Count(s, c) == Cardinality({j \in 1..Len(s) : s[j] = c})

\* C4: when get_relevant_context returns over a collection of n records, the
\* context is min(2, n) chunk texts of the collection joined by newlines: 2 of
\* them as soon as n >= 2, never more.
C4_TopTwo ==
    cpc = "generate" =>
        /\ Len(results) = (IF Len(coll) >= 2 THEN 2 ELSE Len(coll))
        /\ Len(results) <= 2
        /\ \A r \in 1..Len(results) : \E j \in 1..Len(coll) : coll[j].document = results[r]
        /\ context = Join(<<"\n">>, results)
        /\ Count(context, "\n") = (IF results = <<>> THEN 0 ELSE Len(results) - 1)

\* C4 witness: a retrieval over five indexed chunks returned two of them.
C4_Witness ==
    /\ cpc = "generate"
    /\ Len(coll) = 5
    /\ Len(results) = 2
    /\ results[1] # results[2]

\* s holds part at position a
HoldsAt(s, part, a) ==
    /\ a + Len(part) - 1 <= Len(s)
    /\ SubSeq(s, a, a + Len(part) - 1) = part

\* C10: every message list handed to the language model is two messages, the
\* fixed instruction first and then one user message holding the retrieved
\* context and, after it, the query; the model is invoked once per call of
\* generate_response, so at most once per input and exactly once for an input
\* that got a response.
C10_TwoMessages ==
    /\ Len(messages) = calls.llm
    /\ calls.llm <= 1
    /\ cpc = "generate" => calls.llm = 0
    /\ (printed # <<>> /\ LastPrinted.kind = "assistant") => calls.llm = 1
    /\ \A m \in 1..Len(messages) :
          /\ Len(messages[m]) = 2
          /\ messages[m][1].role = "system"
          /\ messages[m][1].content = system_message
          /\ messages[m][2].role = "human"
          /\ \E a, b \in 1..(Len(messages[m][2].content) + 1) :
                /\ HoldsAt(messages[m][2].content, context, a)
                /\ a + Len(context) <= b
                /\ HoldsAt(messages[m][2].content, query, b)
                /\ b + Len(query) - 1 = Len(messages[m][2].content)

\* C10 witness: a question was answered from a context of two chunks.
C10_Witness ==
    /\ messages # <<>>
    /\ Len(results) = 2
    /\ query = <<"h", "i">>
    /\ printed # <<>>
    /\ LastPrinted.kind = "assistant"

----------------------------------------------------------------------------
(* Properties of the indexing script *)

DocumentsOf(c) == [j \in 1..Len(c) |-> c[j].document]

PageContents == [j \in 1..Len(texts) |-> texts[j].page_content]

\* C5 (as claimed): when a second run has indexed the same chunks as the first,
\* the collection holds every record of the first run and, for each chunk, a
\* second copy under an id the first run did not use.
C5_SecondRunAppendsCopies ==
    (/\ ipc = "done"
     /\ runs = 2
     /\ coll0 # <<>>
     /\ DocumentsOf(coll0) = PageContents) =>
        /\ \A r \in Range(coll0) : r \in Range(coll)
        /\ \A j \in 1..Len(texts) :
              \E r \in Range(coll) :
                  /\ r.document = texts[j].page_content
                  /\ r.id \notin IdsOf(coll0)

\* C6: no step removes or changes a record of the collection: every record
\* held before the step is held after it, and stays the only record under its
\* id.
C6_AppendOnly ==
    [][\A r \in Range(coll) :
          /\ r \in Range(coll')
          /\ \A r2 \in Range(coll') : r2.id = r.id => r2 = r]_vars

\* C6 witness: a run has added records to a collection that already held
\* records of an earlier run.
C6_Witness ==
    /\ ipc = "done"
    /\ coll0 # <<>>
    /\ Len(coll) > Len(coll0)

DecimalDigits == <<"0", "1", "2", "3", "4", "5", "6", "7", "8", "9">>

\* C7: in every run the ids built so far are doc_0, doc_1, ... in chunk order,
\* one per chunk embedded, pairwise distinct, whatever the collection holds.
C7_IdsCountFromZero ==
    /\ ipc \in {"embed", "done"} => Len(ids) = i
    /\ \A j \in 1..Len(ids) :
          j <= 10 => ids[j] = <<"d", "o", "c", "_", DecimalDigits[j]>>
    /\ \A j, k \in 1..Len(ids) : ids[j] = ids[k] => j = k

\* C7 witness: a second run has given its first chunks the ids doc_0 and doc_1
\* although the collection already holds records under these ids.
C7_Witness ==
    /\ runs = 2
    /\ Len(ids) >= 2
    /\ ids[1] = <<"d", "o", "c", "_", "0">>
    /\ ipc = "embed"
    /\ ids[1] \in IdsOf(coll0)
    /\ ids[2] \in IdsOf(coll0)

EmbeddingFailed == \E j \in 1..Len(embedLog) : embedLog[j][2] = <<>>

\* C8: once the embedding provider has failed for a chunk, the run has ended
\* with an error, collection.add was never called and the collection is as it
\* was when the run started.
C8_EmbeddingFailureIsFatal ==
    EmbeddingFailed =>
        /\ ipc = "failed"
        /\ addLog = <<>>
        /\ coll = coll0

\* C8 witness: the provider failed after it had embedded chunks of the run.
C8_Witness ==
    /\ EmbeddingFailed
    /\ Len(embeddings) >= 2
    /\ ipc = "failed"

\* C9: a run calls collection.add at most once, and exactly once when it
\* succeeds; the four sequences it passes have one entry per chunk, entry j
\* being the id, the vector the provider returned, the text and the source of
\* chunk j; the provider was asked once per chunk, in chunk order.
C9_OneBulkAdd ==
    /\ Len(addLog) <= 1
    /\ ipc = "done" => Len(addLog) = 1
    /\ \A a \in Range(addLog) :
          /\ Len(a.ids) = Len(texts)
          /\ Len(a.embeddings) = Len(texts)
          /\ Len(a.documents) = Len(texts)
          /\ Len(a.metadatas) = Len(texts)
          /\ Len(embedLog) = Len(texts)
          /\ \A j \in 1..Len(texts) :
                /\ a.ids[j] = <<"d", "o", "c", "_", DecimalDigits[j]>>
                /\ embedLog[j][1] = texts[j].page_content
                /\ a.embeddings[j] = embedLog[j][2]
                /\ a.embeddings[j] \in Vectors
                /\ a.documents[j] = texts[j].page_content
                /\ a.metadatas[j].source = texts[j].metadata.source

\* C9 witness: a run over five chunks has written them in its one add.
C9_Witness ==
    /\ ipc = "done"
    /\ Len(texts) = 5
    /\ Len(addLog) = 1
    /\ Len(coll) = 5

----------------------------------------------------------------------------
(* Properties of the chat session, continued *)

\* C14: the session handles one query at a time, step after step: the
\* embedding and the index query of an input are made once, from the retrieval
\* step and before anything else; the language model is called only from the
\* generation step, after that retrieval has returned; and an input is read
\* only at the loop head, when the input before it was skipped or has had its
\* response or its error printed.
C14_Sequential ==
    [][/\ reads' # reads =>
             /\ cpc = "read"
             /\ (reads = 0 \/ query = <<>> \/ printed # <<>>)
       /\ (reads' = reads /\ calls'.embed # calls.embed) =>
             /\ cpc = "retrieve"
             /\ calls = NoCalls
       /\ (reads' = reads /\ calls'.llm # calls.llm) =>
             /\ cpc = "generate"
             /\ calls = [embed |-> 1, query |-> 1, llm |-> 0]
             /\ context = Join(<<"\n">>, results)
       /\ (reads' = reads /\ printed' # printed) =>
             /\ cpc \in {"retrieve", "generate"}
             /\ printed = <<>>
             /\ cpc' = "read"]_vars

\* C14 witness: a second question is in its generation step after the first
\* one was retrieved, generated and printed.
C14_Witness ==
    /\ reads = 2
    /\ failures = 0
    /\ cpc = "generate"
    /\ calls = [embed |-> 1, query |-> 1, llm |-> 0]
    /\ Len(results) = 2

IsBlank(line) == \A j \in 1..Len(line) : line[j] \in Whitespace

\* C15: reading a line that is empty once trimmed makes no provider call,
\* prints nothing and leaves the loop at its head; as long as that line is the
\* last one read, nothing has been called or printed for it.
C15_EmptyInputSkipped ==
    [][/\ (\E line \in Lines : IsBlank(line) /\ ReadInput(line)) =>
             /\ cpc' = "read"
             /\ calls' = NoCalls
             /\ messages' = <<>>
             /\ printed' = <<>>
             /\ failures' = failures
       /\ (reads > 0 /\ IsBlank(raw)) =>
             /\ calls' = NoCalls
             /\ messages' = <<>>
             /\ printed' = <<>>]_vars

\* C15 witness: a line of whitespace was read and skipped, and the loop is
\* back at input().
C15_Witness ==
    /\ reads = 1
    /\ raw = <<" ", "\t">>
    /\ query = <<>>
    /\ cpc = "read"
    /\ calls = NoCalls
    /\ printed = <<>>

----------------------------------------------------------------------------
(* Properties of the indexing script, continued *)

\* The run has been through the loading part of process_documents
Loaded == runs > 0 /\ ipc # "process"

\* The files of the directory with a supported extension whose loader worked
LoadedFiles == {f \in dir.present \ dir.failing : f \in {FileA, FileB, FileC}}

ChunksFrom(f) == {j \in 1..Len(texts) : texts[j].metadata.source = f}

\* C16: once a run has loaded an existing directory, the chunks to embed are
\* those of every supported file whose loader worked, all of them and in
\* order, and none of a file whose loader raised; if there is such a file the
\* run goes on to the embedding loop, whatever other loaders raised, and when
\* it succeeds all these chunks are written by its one add.
C16_LoaderErrorSkipsFile ==
    (Loaded /\ dir.exists) =>
        /\ \A f \in Files \ LoadedFiles : ChunksFrom(f) = {}
        /\ \A f \in LoadedFiles :
              /\ Cardinality(ChunksFrom(f)) = Len(FileChunks(f))
              /\ \E first \in 1..Len(texts) :
                    \A k \in 1..Len(FileChunks(f)) :
                        /\ first + k - 1 \in ChunksFrom(f)
                        /\ texts[first + k - 1].page_content = FileChunks(f)[k]
        /\ LoadedFiles # {} => ipc \in {"embed", "done", "failed"}
        /\ (LoadedFiles # {} /\ ipc = "done") =>
              /\ Len(addLog) = 1
              /\ addLog[1].documents = [j \in 1..Len(texts) |-> texts[j].page_content]
              /\ \A j \in 1..Len(texts) : \E r \in Range(coll) : r.id = addLog[1].ids[j]

\* C16 witness: the loader of a.txt raised, and the run has written the chunks
\* of c.txt and b.md.
C16_Witness ==
    /\ ipc = "done"
    /\ dir.exists
    /\ FileA \in dir.failing
    /\ LoadedFiles = {FileB, FileC}
    /\ Len(texts) = 3
    /\ DocumentsOf(coll) = << <<"e">>, <<"x", "y">>, <<"y", "z">> >>

\* C17: a run that found no directory, or loaded no document, has returned
\* without asking the embedding provider and without calling add, and the
\* collection is as it was when the run started.
C17_NothingToIndex ==
    (Loaded /\ (~dir.exists \/ LoadedFiles = {})) =>
        /\ ipc = "returned"
        /\ texts = <<>>
        /\ embedLog = <<>>
        /\ addLog = <<>>
        /\ coll = coll0

\* C17 witness: over a collection that holds records, a run has returned
\* because the only supported file of the directory could not be loaded.
C17_Witness ==
    /\ ipc = "returned"
    /\ dir.exists
    /\ dir.present = {FileB, FileN}
    /\ dir.failing = {FileB}
    /\ coll # <<>>

\* C17 second case, reached as well: the directory does not exist.
C17_WitnessNoDirectory ==
    /\ ipc = "returned"
    /\ ~dir.exists
    /\ coll # <<>>

----------------------------------------------------------------------------
(* show_chunks.py: chunk_text and the langchain splitters it builds.  The    *)
(* splitters are the library's: TextSplitter.__init__, _join_docs and        *)
(* _merge_splits, _split_text_with_regex, CharacterTextSplitter.split_text,  *)
(* RecursiveCharacterTextSplitter._split_text (keep_separator=True) and      *)
(* split_text_on_tokens, followed statement by statement.                    *)

MaxTextLen == 4      \* longest text handed to chunk_text
MaxChunkSize == 3    \* largest chunk_size, and largest chunk_overlap

Alphabet == {"a", "b", " ", "\n", "."}

RECURSIVE TextsOfLen(_)
TextsOfLen(n) ==
    IF n = 0 THEN {<<>>}
    ELSE {Append(t, c) : t \in TextsOfLen(n - 1), c \in Alphabet}

Texts == UNION {TextsOfLen(n) : n \in 0..MaxTextLen}

\* The scenario text "para one.\n\npara two."
ParaText ==
    <<"p", "a", "r", "a", " ", "o", "n", "e", ".", "\n", "\n",
      "p", "a", "r", "a", " ", "t", "w", "o", ".">>

\* The separators chunk_text gives the recursive splitter
separators == << <<"\n", "\n">>, <<"\n">>, <<".", " ">>, <<" ">>, <<>> >>

\* The separator chunk_text gives the character splitter
separator == <<"\n">>

\* TextSplitter.__init__ raises ValueError
ConstructorRaises(size, overlap) == overlap > size

OccursAt(t, sep, j) ==
    /\ j + Len(sep) - 1 <= Len(t)
    /\ SubSeq(t, j, j + Len(sep) - 1) = sep

\* re.search(re.escape(sep), t) for a non-empty sep
Occurs(t, sep) == \E j \in 1..Len(t) : OccursAt(t, sep, j)

\* re.split(re.escape(sep), t) for a non-empty sep
RECURSIVE ReSplit(_, _)
ReSplit(t, sep) ==
    IF ~Occurs(t, sep) THEN <<t>>
    ELSE LET j == CHOOSE k \in 1..Len(t) :
                     OccursAt(t, sep, k) /\ \A m \in 1..(k - 1) : ~OccursAt(t, sep, m)
         IN  <<SubSeq(t, 1, j - 1)>> \o ReSplit(SubSeq(t, j + Len(sep), Len(t)), sep)

RECURSIVE NonEmpty(_)
NonEmpty(ss) ==
    IF ss = <<>> THEN <<>>
    ELSE (IF Head(ss) = <<>> THEN <<>> ELSE <<Head(ss)>>) \o NonEmpty(Tail(ss))

\* _split_text_with_regex(text, separator, keep_separator): with
\* keep_separator every piece but the first starts with the separator
SplitTextWithRegex(t, sep, keep) ==
    IF sep = <<>> THEN [j \in 1..Len(t) |-> <<t[j]>>]
    ELSE LET ps == ReSplit(t, sep)
         IN  NonEmpty(IF keep
                      THEN [j \in 1..Len(ps) |-> IF j = 1 THEN ps[1] ELSE sep \o ps[j]]
                      ELSE ps)

\* _join_docs: the list holding the joined, stripped text, or nothing when
\* that text is empty
JoinDocs(docs, sep) ==
    LET t == Strip(Join(sep, docs))
    IN  IF t = <<>> THEN <<>> ELSE <<t>>

SepLen(sep, more) == IF more THEN Len(sep) ELSE 0

\* The while loop of _merge_splits that pops pieces off the front of
\* current_doc
RECURSIVE PopFront(_, _, _, _, _, _)
PopFront(cur, total, len, sep, size, overlap) ==
    IF \/ total > overlap
       \/ (total + len + SepLen(sep, Len(cur) > 0) > size /\ total > 0)
    THEN PopFront(Tail(cur), total - (Len(cur[1]) + SepLen(sep, Len(cur) > 1)),
                  len, sep, size, overlap)
    ELSE [cur |-> cur, total |-> total]

\* _merge_splits(splits, separator), entered with docs, current_doc and total
RECURSIVE MergeFrom(_, _, _, _, _, _, _)
MergeFrom(splits, sep, size, overlap, docs, cur, total) ==
    IF splits = <<>> THEN docs \o JoinDocs(cur, sep)
    ELSE LET d   == Head(splits)
             len == Len(d)
         IN  IF total + len + SepLen(sep, Len(cur) > 0) > size /\ Len(cur) > 0
             THEN LET p == PopFront(cur, total, len, sep, size, overlap)
                  IN  MergeFrom(Tail(splits), sep, size, overlap,
                                docs \o JoinDocs(cur, sep),
                                Append(p.cur, d),
                                p.total + len + SepLen(sep, Len(p.cur) + 1 > 1))
             ELSE MergeFrom(Tail(splits), sep, size, overlap, docs,
                            Append(cur, d),
                            total + len + SepLen(sep, Len(cur) + 1 > 1))

MergeSplits(splits, sep, size, overlap) ==
    MergeFrom(splits, sep, size, overlap, <<>>, <<>>, 0)

\* CharacterTextSplitter.split_text (keep_separator=False)
CharacterSplit(t, sep, size, overlap) ==
    MergeSplits(SplitTextWithRegex(t, sep, FALSE), sep, size, overlap)

\* The position in seps of the separator _split_text picks: the first that is
\* empty or occurs in the text, else the last
PickSeparator(t, seps) ==
    LET found == {j \in 1..Len(seps) : seps[j] = <<>> \/ Occurs(t, seps[j])}
    IN  IF found = {} THEN Len(seps)
        ELSE CHOOSE j \in found : \A k \in found : j <= k

\* RecursiveCharacterTextSplitter._split_text(text, separators), and its loop
\* over the splits entered with _good_splits and final_chunks
RECURSIVE RecursiveSplit(_, _, _, _)
RECURSIVE SplitLoop(_, _, _, _, _, _)
SplitLoop(splits, newSeps, size, overlap, good, final) ==
    IF splits = <<>>
    THEN final \o (IF good # <<>> THEN MergeSplits(good, <<>>, size, overlap) ELSE <<>>)
    ELSE LET sp == Head(splits)
         IN  IF Len(sp) < size
             THEN SplitLoop(Tail(splits), newSeps, size, overlap, Append(good, sp), final)
             ELSE LET flushed ==
                          final \o (IF good # <<>>
                                    THEN MergeSplits(good, <<>>, size, overlap)
                                    ELSE <<>>)
                  IN  SplitLoop(Tail(splits), newSeps, size, overlap, <<>>,
                                flushed \o (IF newSeps = <<>>
                                            THEN <<sp>>
                                            ELSE RecursiveSplit(sp, newSeps, size, overlap)))

RecursiveSplit(t, seps, size, overlap) ==
    LET j       == PickSeparator(t, seps)
        sep     == seps[j]
        newSeps == IF sep # <<>> /\ Occurs(t, sep)
                   THEN SubSeq(seps, j + 1, Len(seps))
                   ELSE <<>>
    IN  SplitLoop(SplitTextWithRegex(t, sep, TRUE), newSeps, size, overlap, <<>>, <<>>)

\* tokenizer.encode: the tokens are consecutive pieces of the text, cut after
\* the positions in cuts
RECURSIVE Encode(_, _, _)
Encode(t, cuts, from) ==
    IF from > Len(t) THEN <<>>
    ELSE LET ends == {j \in from..Len(t) : j \in cuts \/ j = Len(t)}
             to   == CHOOSE j \in ends : \A k \in ends : j <= k
         IN  <<SubSeq(t, from, to)>> \o Encode(t, cuts, to + 1)

\* tokenizer.decode
RECURSIVE Decode(_)
Decode(toks) == IF toks = <<>> THEN <<>> ELSE Head(toks) \o Decode(Tail(toks))

\* split_text_on_tokens never leaves its loop: the window does not advance
\* and does not reach the end of the tokens
TokenSplitHangs(n, size, overlap) == size - overlap <= 0 /\ size < n

\* The loop of split_text_on_tokens, entered at start_idx (0-based)
RECURSIVE TokenLoop(_, _, _, _)
TokenLoop(input_ids, size, overlap, start) ==
    LET n   == Len(input_ids)
        cur == Min(start + size, n)
    IN  IF start >= n THEN <<>>
        ELSE <<Decode(SubSeq(input_ids, start + 1, cur))>>
             \o (IF cur = n THEN <<>>
                 ELSE TokenLoop(input_ids, size, overlap, start + (size - overlap)))

----------------------------------------------------------------------------
(* chunk_text *)

Methods == {"recursive", "character", "token", "other"}

\* The arguments of a call of chunk_text
ChunkerInit ==
    /\ collExists = FALSE
    /\ coll = <<>>
    /\ IndexerInit
    /\ SessionInit
    /\ kpc = "call"
    /\ chunks = <<>>
    /\ \/ /\ text \in Texts
          /\ method \in Methods
          /\ chunk_size \in 1..MaxChunkSize
          /\ chunk_overlap \in 0..MaxChunkSize
       \/ /\ text = ParaText
          /\ method = "recursive"
          /\ chunk_size = 20
          /\ chunk_overlap = 0

\* The splitter's constructor raises: chunk_text ends with a ValueError
ChunkTextRaises ==
    /\ kpc = "call"
    /\ \/ method = "other"
       \/ ConstructorRaises(chunk_size, chunk_overlap)
    /\ kpc' = "raised"
    /\ UNCHANGED <<text, method, chunk_size, chunk_overlap, chunks>>
    /\ UNCHANGED <<collExists, coll, ivars, cvars>>

ChunkRecursive ==
    /\ kpc = "call"
    /\ method = "recursive"
    /\ ~ConstructorRaises(chunk_size, chunk_overlap)
    /\ chunks' = RecursiveSplit(text, separators, chunk_size, chunk_overlap)
    /\ kpc' = "returned"
    /\ UNCHANGED <<text, method, chunk_size, chunk_overlap>>
    /\ UNCHANGED <<collExists, coll, ivars, cvars>>

ChunkCharacter ==
    /\ kpc = "call"
    /\ method = "character"
    /\ ~ConstructorRaises(chunk_size, chunk_overlap)
    /\ chunks' = CharacterSplit(text, separator, chunk_size, chunk_overlap)
    /\ kpc' = "returned"
    /\ UNCHANGED <<text, method, chunk_size, chunk_overlap>>
    /\ UNCHANGED <<collExists, coll, ivars, cvars>>

\* The token splitter, the tokenizer cutting the text after the positions cuts
ChunkToken(cuts) ==
    /\ kpc = "call"
    /\ method = "token"
    /\ ~ConstructorRaises(chunk_size, chunk_overlap)
    /\ LET input_ids == Encode(text, cuts, 1)
       IN  IF TokenSplitHangs(Len(input_ids), chunk_size, chunk_overlap)
           THEN /\ kpc' = "hung"
                /\ chunks' = chunks
           ELSE /\ kpc' = "returned"
                /\ chunks' = TokenLoop(input_ids, chunk_size, chunk_overlap, 0)
    /\ UNCHANGED <<text, method, chunk_size, chunk_overlap>>
    /\ UNCHANGED <<collExists, coll, ivars, cvars>>

ChunkerNext ==
    \/ ChunkTextRaises
    \/ ChunkRecursive
    \/ ChunkCharacter
    \/ \E cuts \in SUBSET (1..(Len(text) - 1)) : ChunkToken(cuts)

\* One call of chunk_text, for every text and configuration within the bounds
SpecChunker == ChunkerInit /\ [][ChunkerNext]_vars

----------------------------------------------------------------------------
(* Properties of chunk_text *)

\* C11 (as claimed): for each of the three strategies a call on a non-empty
\* text with chunk_overlap >= chunk_size, equal values included, ends with the
\* configuration error: it returns no chunks and does not loop forever.
C11_OverlapNotBelowSizeRaises ==
    (/\ kpc # "call"
     /\ text # <<>>
     /\ method \in {"recursive", "character", "token"}
     /\ chunk_overlap >= chunk_size) => kpc = "raised"

\* The last n characters of c, and the first n (all of c when it is shorter)
LastChars(c, n) == SubSeq(c, IF Len(c) > n THEN Len(c) - n + 1 ELSE 1, Len(c))
FirstChars(c, n) == SubSeq(c, 1, IF Len(c) > n THEN n ELSE Len(c))

\* C12 (as claimed): in the chunks returned for a non-empty text and a valid
\* configuration, the
\* last chunk_overlap characters of each chunk are the first chunk_overlap
\* characters of the next one.
C12_NeighboursShareOverlap ==
    (kpc = "returned" /\ text # <<>> /\ chunk_overlap < chunk_size) =>
        \A j \in 1..(Len(chunks) - 1) :
            /\ Len(chunks[j]) >= chunk_overlap
            /\ Len(chunks[j + 1]) >= chunk_overlap
            /\ LastChars(chunks[j], chunk_overlap) = FirstChars(chunks[j + 1], chunk_overlap)

\* The chunks put together, each one after the first without its first n
\* characters
Reconstruct(cs, n) ==
    IF cs = <<>> THEN <<>>
    ELSE Head(cs) \o Decode([j \in 1..(Len(cs) - 1) |->
                                SubSeq(cs[j + 1], n + 1, Len(cs[j + 1]))])

\* C13 (as claimed): for the recursive and the character strategy, a
\* non-empty text and a valid configuration, the chunks without their overlaps put together are the text,
\* no character dropped; and "para one.\n\npara two." at size 20, overlap 0
\* comes back as two chunks.
C13_RoundTrip ==
    (/\ kpc = "returned"
     /\ text # <<>>
     /\ method \in {"recursive", "character"}
     /\ chunk_overlap < chunk_size) =>
        /\ Reconstruct(chunks, chunk_overlap) = text
        /\ (text = ParaText /\ chunk_size = 20 /\ chunk_overlap = 0) =>
              Len(chunks) = 2

====
